---- MODULE Spec2Model ----
(***************************************************************************)
(* Model of the POST /predict handler of app.py: JSON body -> list of      *)
(* records -> validate_input_data -> check_data_types_and_values ->        *)
(* convert_to_dataframe -> model.predict -> JSON response.                 *)
(*                                                                         *)
(* JSON values are records tagged by k:                                    *)
(*   null, bool (n = 0/1), int (n, or s = "huge" for an integer literal    *)
(*   beyond the range of a double), float (s = "fin" and n = twice the     *)
(*   value, or s = "inf" / "-inf" / "nan"), str (s), dict (items, a        *)
(*   sequence of key/value pairs in insertion order, keys distinct), list  *)
(*   (a nested array; elems, a sequence of strings), array (the array at   *)
(*   the top of a body; elems, a sequence of JSON values), unparsable (a   *)
(*   body that is not JSON).                                               *)
(* Record indices are 0-based as in the source (enumerate).                *)
(***************************************************************************)
EXTENDS Integers, Sequences, FiniteSets, TLC

VARIABLES expected_features, model_raises, body, input_data, input_df, pc, stages, response

vars == <<expected_features, model_raises, body, input_data, input_df, pc, stages, response>>

(* ---------------------------------------------------------------------- *)
(* JSON values                                                             *)
(* ---------------------------------------------------------------------- *)
JNull == [k |-> "null", n |-> 0, s |-> ""]
JBool(b) == [k |-> "bool", n |-> IF b THEN 1 ELSE 0, s |-> ""]
JInt(i) == [k |-> "int", n |-> i, s |-> ""]
HugeInt == [k |-> "int", n |-> 0, s |-> "huge"]
JFloat(twice) == [k |-> "float", n |-> twice, s |-> "fin"]
Inf == [k |-> "float", n |-> 0, s |-> "inf"]
NegInf == [k |-> "float", n |-> 0, s |-> "-inf"]
NaN == [k |-> "float", n |-> 0, s |-> "nan"]
JStr(t) == [k |-> "str", n |-> 0, s |-> t]
JList(e) == [k |-> "list", elems |-> e]
JDict(it) == [k |-> "dict", items |-> it]
Item(key, val) == [key |-> key, val |-> val]

Range(f) == {f[i] : i \in DOMAIN f}

Abs(i) == IF i < 0 THEN 0 - i ELSE i

Digits == <<"0", "1", "2", "3", "4", "5", "6", "7", "8", "9">>

SmallInts == (0 - 9) .. 9

SmallHalves == (0 - 19) .. 19

(* str(i) of an integer, on the one-digit integers the model uses. *)
DecStr(i) == (IF i < 0 THEN "-" ELSE "") \o Digits[Abs(i) + 1]

(* repr of a finite float given as twice its value: -1 is "-0.5". *)
FloatStr(twice) ==
    (IF twice < 0 THEN "-" ELSE "") \o Digits[(Abs(twice) \div 2) + 1]
        \o (IF Abs(twice) % 2 = 1 THEN ".5" ELSE ".0")

(* str(v): never fails. *)
ToStr(v) ==
    CASE v.k = "null" -> "None"
      [] v.k = "bool" -> IF v.n = 1 THEN "True" ELSE "False"
      [] v.k = "int" -> IF v.s = "huge" THEN "1e400 as integer digits" ELSE DecStr(v.n)
      [] v.k = "float" -> IF v.s = "fin" THEN FloatStr(v.n) ELSE v.s
      [] v.k = "str" -> v.s
      [] v.k = "list" -> IF v.elems = <<>> THEN "[]" ELSE "[...]"
      [] v.k = "dict" -> IF v.items = <<>> THEN "{}" ELSE "{...}"

Ok(v) == [out |-> "ok", val |-> v]
Raise(exc) == [out |-> exc, val |-> JNull]

(* int(v) *)
ToInt(v) ==
    CASE v.k = "bool" -> Ok(JInt(v.n))
      [] v.k = "int" -> Ok(v)
      [] v.k = "float" ->
            IF v.s = "fin"
                THEN Ok(JInt((IF v.n < 0 THEN 0 - 1 ELSE 1) * (Abs(v.n) \div 2)))
                ELSE IF v.s = "nan" THEN Raise("ValueError") ELSE Raise("OverflowError")
      [] v.k = "str" ->
            IF \E i \in SmallInts : DecStr(i) = v.s
                THEN Ok(JInt(CHOOSE i \in SmallInts : DecStr(i) = v.s))
                ELSE Raise("ValueError")
      [] OTHER -> Raise("TypeError")

(* float(v) *)
ToFloat(v) ==
    CASE v.k = "bool" -> Ok(JFloat(2 * v.n))
      [] v.k = "int" -> IF v.s = "huge" THEN Raise("OverflowError") ELSE Ok(JFloat(2 * v.n))
      [] v.k = "float" -> Ok(v)
      [] v.k = "str" ->
            IF \E i \in SmallInts : DecStr(i) = v.s
                THEN Ok(JFloat(2 * (CHOOSE i \in SmallInts : DecStr(i) = v.s)))
            ELSE IF \E h \in SmallHalves : FloatStr(h) = v.s
                THEN Ok(JFloat(CHOOSE h \in SmallHalves : FloatStr(h) = v.s))
            ELSE IF v.s = "nan" THEN Ok(NaN)
            ELSE IF v.s = "inf" THEN Ok(Inf)
            ELSE IF v.s = "-inf" THEN Ok(NegInf)
            ELSE Raise("ValueError")
      [] OTHER -> Raise("TypeError")

(* expected_type(value) for the three entries of type_mapping *)
type_mapping(type, v) ==
    CASE type = "int" -> ToInt(v)
      [] type = "float" -> ToFloat(v)
      [] type = "str" -> Ok(JStr(ToStr(v)))

(* mutant: the sign test applied to int values only *)
LessThanZero_IntOnly(v) == v.k = "int" /\ v.s # "huge" /\ v.n < 0

(* mutant: value <= 0 in place of value < 0 *)
LessThanZero_OrZero(v) ==
    CASE v.k = "int" -> v.s # "huge" /\ v.n <= 0
      [] v.k = "float" -> (v.s = "fin" /\ v.n <= 0) \/ v.s = "-inf"
      [] OTHER -> FALSE

(* value < 0 on a converted int or float; False for nan *)
LessThanZero(v) ==
    CASE v.k = "int" -> v.s # "huge" /\ v.n < 0
      [] v.k = "float" -> (v.s = "fin" /\ v.n < 0) \/ v.s = "-inf"
      [] OTHER -> FALSE

(* ---------------------------------------------------------------------- *)
(* dict, list and str as Python containers                                 *)
(* ---------------------------------------------------------------------- *)
Keys(d) == [i \in 1 .. Len(d.items) |-> d.items[i].key]

HasKey(d, key) == \E i \in 1 .. Len(d.items) : d.items[i].key = key

(* d.get(key): None when the key is absent *)
Get(d, key) ==
    IF HasKey(d, key)
        THEN d.items[CHOOSE i \in 1 .. Len(d.items) : d.items[i].key = key].val
        ELSE JNull

(* d[key] = val on a key d has: the key keeps its position *)
SetItem(d, key, val) ==
    JDict([i \in 1 .. Len(d.items) |->
              IF d.items[i].key = key THEN Item(key, val) ELSE d.items[i]])

CharsOf(t) ==
    CASE t = "" -> <<>>
      [] t = "LotArea" -> <<"L", "o", "t", "A", "r", "e", "a">>
      [] t = "YearBuilt" -> <<"Y", "e", "a", "r", "B", "u", "i", "l", "t">>

(* f in t for two strings: f occurs in t as a substring *)
IsSubstring(f, t) ==
    LET cf == CharsOf(f)
        ct == CharsOf(t)
    IN  \E i \in 0 .. (Len(ct) - Len(cf)) : SubSeq(ct, i + 1, i + Len(cf)) = cf

(* field in input_data, for the containers that support it *)
Contains(e, f) ==
    CASE e.k = "dict" -> HasKey(e, f)
      [] e.k = "list" -> f \in Range(e.elems)
      [] e.k = "str" -> IsSubstring(f, e.s)

(* for field in input_data *)
Iterate(e) ==
    CASE e.k = "dict" -> Keys(e)
      [] e.k = "list" -> e.elems
      [] e.k = "str" -> CharsOf(e.s)

FieldNames(schema) == [j \in 1 .. Len(schema) |-> schema[j].field]

(* ---------------------------------------------------------------------- *)
(* error messages and results                                              *)
(* ---------------------------------------------------------------------- *)
(* "Record {record}: {msg}: {fields}" / "...{msg}{details joined by ', '}" *)
Err(idx, msg, fields, details) ==
    [record |-> idx, msg |-> msg, fields |-> fields, details |-> details]

NoError == Err(0 - 1, "", <<>>, <<>>)

(* "Field '{field}' {text}", with the type name and str(original_value) *)
Detail(field, text, type, got) ==
    [field |-> field, text |-> text, type |-> type, got |-> got]

Pass == [ok |-> TRUE, raised |-> "", err |-> NoError]
Fail(e) == [ok |-> FALSE, raised |-> "", err |-> e]
Raised(exc) == [ok |-> FALSE, raised |-> exc, err |-> NoError]

(* ---------------------------------------------------------------------- *)
(* validate_input_data                                                     *)
(* ---------------------------------------------------------------------- *)
Reverse(q) == [i \in 1 .. Len(q) |-> q[Len(q) + 1 - i]]

(* mutant: the extra-fields test made before the missing-fields test *)
ValidateRecord_ExtraFirst(idx, e, schema) ==
    IF e.k = "null" THEN Fail(Err(idx, "No input data provided", <<>>, <<>>))
    ELSE IF e.k \in {"bool", "int", "float"} THEN Raised("TypeError")
    ELSE
        LET names == FieldNames(schema)
            missing_fields == SelectSeq(names, LAMBDA f : ~Contains(e, f))
            extra_fields == SelectSeq(Iterate(e), LAMBDA f : f \notin Range(names))
            null_fields == SelectSeq(names, LAMBDA f : Get(e, f) = JNull)
        IN  IF extra_fields # <<>>
                THEN Fail(Err(idx, "Unexpected fields provided", extra_fields, <<>>))
            ELSE IF missing_fields # <<>>
                THEN Fail(Err(idx, "Missing required fields", missing_fields, <<>>))
            ELSE IF e.k # "dict" THEN Raised("AttributeError")
            ELSE IF null_fields # <<>>
                THEN Fail(Err(idx, "Fields cannot be null", null_fields, <<>>))
            ELSE Pass

(* mutant: the extra fields listed against the record's order *)
ValidateRecord_ExtraUnordered(idx, e, schema) ==
    IF e.k = "null" THEN Fail(Err(idx, "No input data provided", <<>>, <<>>))
    ELSE IF e.k \in {"bool", "int", "float"} THEN Raised("TypeError")
    ELSE
        LET names == FieldNames(schema)
            missing_fields == SelectSeq(names, LAMBDA f : ~Contains(e, f))
            extra_fields ==
                Reverse(SelectSeq(Iterate(e), LAMBDA f : f \notin Range(names)))
            null_fields == SelectSeq(names, LAMBDA f : Get(e, f) = JNull)
        IN  IF missing_fields # <<>>
                THEN Fail(Err(idx, "Missing required fields", missing_fields, <<>>))
            ELSE IF extra_fields # <<>>
                THEN Fail(Err(idx, "Unexpected fields provided", extra_fields, <<>>))
            ELSE IF e.k # "dict" THEN Raised("AttributeError")
            ELSE IF null_fields # <<>>
                THEN Fail(Err(idx, "Fields cannot be null", null_fields, <<>>))
            ELSE Pass

(* the body of the loop for the record at idx *)
ValidateRecord(idx, e, schema) ==
    IF e.k = "null" THEN Fail(Err(idx, "No input data provided", <<>>, <<>>))
    ELSE IF e.k \in {"bool", "int", "float"} THEN Raised("TypeError")
    ELSE
        LET names == FieldNames(schema)
            missing_fields == SelectSeq(names, LAMBDA f : ~Contains(e, f))
            extra_fields == SelectSeq(Iterate(e), LAMBDA f : f \notin Range(names))
            null_fields == SelectSeq(names, LAMBDA f : Get(e, f) = JNull)
        IN  IF missing_fields # <<>>
                THEN Fail(Err(idx, "Missing required fields", missing_fields, <<>>))
            ELSE IF extra_fields # <<>>
                THEN Fail(Err(idx, "Unexpected fields provided", extra_fields, <<>>))
            ELSE IF e.k # "dict" THEN Raised("AttributeError")
            ELSE IF null_fields # <<>>
                THEN Fail(Err(idx, "Fields cannot be null", null_fields, <<>>))
            ELSE Pass

RECURSIVE ValidateFrom_Last(_, _, _)
(* mutant: the loop runs on after a failure and reports the last one *)
ValidateFrom_Last(list, idx, schema) ==
    IF idx >= Len(list) THEN Pass
    ELSE LET r == ValidateRecord(idx, list[idx + 1], schema)
             rest == ValidateFrom_Last(list, idx + 1, schema)
         IN  IF r.raised # "" THEN r
             ELSE IF rest.ok THEN r
             ELSE rest

RECURSIVE ValidateFrom(_, _, _)
ValidateFrom(list, idx, schema) ==
    IF idx >= Len(list) THEN Pass
    ELSE LET r == ValidateRecord(idx, list[idx + 1], schema)
         IN  IF r.ok THEN ValidateFrom(list, idx + 1, schema) ELSE r

validate_input_data(input_data_list, schema) == ValidateFrom(input_data_list, 0, schema)

(* ---------------------------------------------------------------------- *)
(* check_data_types_and_values                                             *)
(* ---------------------------------------------------------------------- *)
IsNumericType(type) == type \in {"int", "float"}

(* the inner loop from schema entry j on; rec is updated in place *)
RECURSIVE CheckFields(_, _, _, _, _)
CheckFields(rec, schema, j, type_errors, invalid_values) ==
    IF j > Len(schema)
        THEN [raised |-> "", rec |-> rec,
              type_errors |-> type_errors, invalid_values |-> invalid_values]
    ELSE
        LET field == schema[j].field
            expected_type == schema[j].type
            original_value == Get(rec, field)
            conv == type_mapping(expected_type, original_value)
        IN  IF original_value = JNull
                THEN CheckFields(rec, schema, j + 1,
                        Append(type_errors, Detail(field, "cannot be null", "", "")),
                        invalid_values)
            ELSE IF conv.out = "ok"
                THEN CheckFields(SetItem(rec, field, conv.val), schema, j + 1,
                        type_errors,
                        IF IsNumericType(expected_type) /\ LessThanZero(conv.val)
                            THEN Append(invalid_values,
                                    Detail(field, "must be a non-negative number", "", ""))
                            ELSE invalid_values)
            ELSE IF conv.out \in {"ValueError", "TypeError"}
                THEN CheckFields(rec, schema, j + 1,
                        Append(type_errors,
                            Detail(field, "must be of type", expected_type,
                                   ToStr(original_value))),
                        invalid_values)
            ELSE [raised |-> conv.out, rec |-> rec,
                  type_errors |-> type_errors, invalid_values |-> invalid_values]

(* the loop from the record at idx on; the result carries the updated list *)
RECURSIVE CheckFrom(_, _, _)
CheckFrom(list, idx, schema) ==
    IF idx >= Len(list) THEN [ok |-> TRUE, raised |-> "", err |-> NoError, data |-> list]
    ELSE
        LET c == CheckFields(list[idx + 1], schema, 1, <<>>, <<>>)
            updated == [list EXCEPT ![idx + 1] = c.rec]
        IN  IF c.raised # ""
                THEN [ok |-> FALSE, raised |-> c.raised, err |-> NoError, data |-> updated]
            ELSE IF c.type_errors # <<>>
                THEN [ok |-> FALSE, raised |-> "", data |-> updated,
                      err |-> Err(idx, "Invalid input format: Type errors - ",
                                  <<>>, c.type_errors)]
            ELSE IF c.invalid_values # <<>>
                THEN [ok |-> FALSE, raised |-> "", data |-> updated,
                      err |-> Err(idx, "Invalid values", <<>>, c.invalid_values)]
            ELSE CheckFrom(updated, idx + 1, schema)

check_data_types_and_values(input_data_list, schema) == CheckFrom(input_data_list, 0, schema)

(* ---------------------------------------------------------------------- *)
(* convert_to_dataframe and the model                                      *)
(* ---------------------------------------------------------------------- *)
(* mutant: the cells of a row taken in the record's own key order *)
convert_to_dataframe_RecordOrder(input_data_list, schema) ==
    [df |-> [r \in 1 .. Len(input_data_list) |->
                [j \in 1 .. Len(schema) |-> input_data_list[r].items[j].val]],
     error |-> ""]

(* pd.DataFrame(list, columns=keys): one row per record, cells looked up   *)
(* by column name in schema order                                          *)
convert_to_dataframe(input_data_list, schema) ==
    [df |-> [r \in 1 .. Len(input_data_list) |->
                [j \in 1 .. Len(schema) |-> Get(input_data_list[r], schema[j].field)]],
     error |-> ""]

(* cell <= 0 as the regressor's split test reads it *)
CellLeqZero(v) ==
    LET f == ToFloat(v)
    IN  f.out = "ok" /\ ((f.val.s = "fin" /\ f.val.n <= 0) \/ f.val.s = "-inf")

(* a fitted decision tree: one leaf value per row, splitting on the first  *)
(* column, then on the last                                                *)
TreeLeaf(row) ==
    IF CellLeqZero(row[1])
        THEN (IF CellLeqZero(row[Len(row)]) THEN 100 ELSE 200)
        ELSE (IF CellLeqZero(row[Len(row)]) THEN 300 ELSE 400)

(* model.predict(input_df).tolist() *)
model_predict(df) == [r \in 1 .. Len(df) |-> TreeLeaf(df[r])]

(* ---------------------------------------------------------------------- *)
(* responses                                                               *)
(* ---------------------------------------------------------------------- *)
NoResponse ==
    [status |-> 0, json |-> FALSE, success |-> FALSE, error |-> NoError, predictions |-> <<>>]

(* jsonify({"success": False, "error": ...}), status *)
ErrorResponse(status, e) ==
    [status |-> status, json |-> TRUE, success |-> FALSE, error |-> e, predictions |-> <<>>]

(* jsonify({"success": True, "predictions": ...}) *)
SuccessResponse(predictions) ==
    [status |-> 200, json |-> TRUE, success |-> TRUE, error |-> NoError,
     predictions |-> predictions]

(* an exception that leaves predict(): the framework's own 500 page *)
UnhandledResponse(exc) ==
    [status |-> 500, json |-> FALSE, success |-> FALSE,
     error |-> Err(0 - 1, exc, <<>>, <<>>), predictions |-> <<>>]

(* ---------------------------------------------------------------------- *)
(* the predict handler, one action per stage                               *)
(* ---------------------------------------------------------------------- *)
Finish(r) ==
    /\ response' = r
    /\ pc' = IF r.json THEN "done" ELSE "crashed"

(* request.get_json(): a body that does not parse, or parses to None, is a *)
(* BadRequest, caught in the handler                                       *)
GetJson ==
    /\ pc = "get_json"
    /\ IF body.k \in {"unparsable", "null"}
          THEN Finish(ErrorResponse(400, Err(0 - 1, "Invalid JSON input format", <<>>, <<>>)))
          ELSE pc' = "normalize" /\ UNCHANGED response
    /\ UNCHANGED <<expected_features, model_raises, body, input_data, input_df, stages>>

(* mutant: a single object is not wrapped in a list *)
NormalizeBody_NoWrap(b) ==
    CASE b.k = "array" -> [ok |-> TRUE, list |-> b.elems]
      [] OTHER -> [ok |-> FALSE, list |-> <<>>]

(* "Ensure input_data is a list" *)
NormalizeBody(b) ==
    CASE b.k = "array" -> [ok |-> TRUE, list |-> b.elems]
      [] b.k = "dict" -> [ok |-> TRUE, list |-> <<b>>]
      [] OTHER -> [ok |-> FALSE, list |-> <<>>]

NotAListError ==
    Err(0 - 1, "Input data must be a list of records or a single record object.", <<>>, <<>>)

Normalize ==
    /\ pc = "normalize"
    /\ LET n == NormalizeBody(body)
       IN  IF n.ok
              THEN input_data' = n.list /\ pc' = "validate" /\ UNCHANGED response
              ELSE Finish(ErrorResponse(400, NotAListError)) /\ UNCHANGED input_data
    /\ UNCHANGED <<expected_features, model_raises, body, input_df, stages>>

(* Step 1 *)
Validate ==
    /\ pc = "validate"
    /\ stages' = Append(stages, "validate_input_data")
    /\ LET v == validate_input_data(input_data, expected_features)
       IN  IF v.raised # "" THEN Finish(UnhandledResponse(v.raised))
           ELSE IF ~v.ok THEN Finish(ErrorResponse(400, v.err))
           ELSE pc' = "check" /\ UNCHANGED response
    /\ UNCHANGED <<expected_features, model_raises, body, input_data, input_df>>

(* Step 2; the records are rewritten in place, also when the step fails *)
Check ==
    /\ pc = "check"
    /\ stages' = Append(stages, "check_data_types_and_values")
    /\ LET c == check_data_types_and_values(input_data, expected_features)
       IN  /\ input_data' = c.data
           /\ IF c.raised # "" THEN Finish(UnhandledResponse(c.raised))
              ELSE IF ~c.ok THEN Finish(ErrorResponse(400, c.err))
              ELSE pc' = "convert" /\ UNCHANGED response
    /\ UNCHANGED <<expected_features, model_raises, body, input_df>>

(* Step 3 *)
Convert ==
    /\ pc = "convert"
    /\ stages' = Append(stages, "convert_to_dataframe")
    /\ LET d == convert_to_dataframe(input_data, expected_features)
       IN  IF d.error # ""
              THEN /\ Finish(ErrorResponse(400, Err(0 - 1, "Invalid input format", <<>>, <<>>)))
                   /\ UNCHANGED input_df
              ELSE input_df' = d.df /\ pc' = "model_predict" /\ UNCHANGED response
    /\ UNCHANGED <<expected_features, model_raises, body, input_data>>

(* Step 4 *)
Predict ==
    /\ pc = "model_predict"
    /\ stages' = Append(stages, "model.predict")
    /\ IF model_raises
          THEN Finish(ErrorResponse(500, Err(0 - 1, "Prediction failed", <<>>, <<>>)))
          ELSE Finish(SuccessResponse(model_predict(input_df)))
    /\ UNCHANGED <<expected_features, model_raises, body, input_data, input_df>>

(* ---------------------------------------------------------------------- *)
(* the requests and configurations explored                                *)
(* ---------------------------------------------------------------------- *)
MaxBatch == 2

Feature(field, type) == [field |-> field, type |-> type]

(* features.json, in file order *)
Schemas ==
    { <<Feature("LotArea", "int"), Feature("YearBuilt", "float")>>,
      <<Feature("YearBuilt", "str"), Feature("LotArea", "int")>> }

SchemaKeys == {"LotArea", "YearBuilt"}

ExtraKeys == {"ExtraField", "Pool"}

AllKeys == SchemaKeys \cup ExtraKeys

(* values sent for a schema field *)
FieldValues ==
    { JNull, JBool(TRUE), JInt(1), JInt(0), JInt(0 - 1), HugeInt,
      JFloat(3), JFloat(0 - 1), Inf, NaN,
      JStr("abc"), JStr("nan"), JStr("-1"), JList(<<>>) }

KeySeqs ==
    { ks \in UNION { [1 .. n -> AllKeys] : n \in 0 .. Cardinality(AllKeys) } :
        \A i, j \in 1 .. Len(ks) : ks[i] = ks[j] => i = j }

(* every JSON object over AllKeys, keys in every order; the value of a     *)
(* non-schema key is never read, so it is always 1                         *)
Objects ==
    UNION { { JDict([i \in 1 .. Len(ks) |-> Item(ks[i], f[i])]) :
                f \in { g \in [1 .. Len(ks) -> FieldValues] :
                          \A i \in 1 .. Len(ks) : ks[i] \in ExtraKeys => g[i] = JInt(1) } } :
            ks \in KeySeqs }

Obj2(k1, v1, k2, v2) == JDict(<<Item(k1, v1), Item(k2, v2)>>)

(* the elements of the arrays explored *)
Elements ==
    { Obj2("LotArea", JInt(1), "YearBuilt", JInt(1)),
      Obj2("YearBuilt", JInt(1), "LotArea", JInt(0)),
      JDict(<<>>),
      JDict(<<Item("LotArea", JInt(1))>>),
      Obj2("LotArea", JInt(1), "YearBuilt", JFloat(3)),
      JDict(<<Item("Pool", JInt(1)), Item("LotArea", JInt(1)),
              Item("ExtraField", JInt(1)), Item("YearBuilt", JInt(1))>>),
      JDict(<<Item("Pool", JInt(1)), Item("ExtraField", JInt(1))>>),
      Obj2("LotArea", JNull, "YearBuilt", JInt(1)),
      Obj2("LotArea", JStr("abc"), "YearBuilt", JInt(1)),
      Obj2("YearBuilt", JInt(0 - 1), "LotArea", JStr("abc")),
      Obj2("LotArea", JInt(0 - 1), "YearBuilt", JInt(1)),
      Obj2("LotArea", Inf, "YearBuilt", JInt(1)),
      Obj2("LotArea", JInt(1), "YearBuilt", JStr("nan")),
      JNull, JInt(5), JStr("LotArea"), JStr(""),
      JList(<<>>), JList(<<"YearBuilt", "LotArea">>) }

Arrays ==
    { [k |-> "array", elems |-> e] :
        e \in UNION { [1 .. n -> Elements] : n \in 0 .. MaxBatch } }

Unparsable == [k |-> "unparsable", n |-> 0, s |-> ""]

Bodies == {Unparsable, JNull, JInt(5), JBool(TRUE), JStr("abc")} \cup Objects \cup Arrays

Init ==
    /\ expected_features \in Schemas
    /\ model_raises \in BOOLEAN
    /\ body \in Bodies
    /\ input_data = <<>>
    /\ input_df = <<>>
    /\ pc = "get_json"
    /\ stages = <<>>
    /\ response = NoResponse

Next ==
    \/ GetJson
    \/ Normalize
    \/ Validate
    \/ Check
    \/ Convert
    \/ Predict

Spec == Init /\ [][Next]_vars

(* ---------------------------------------------------------------------- *)
(* the handler as a function of the body                                   *)
(* ---------------------------------------------------------------------- *)
PredictOutcome(b, schema, raises) ==
    IF b.k \in {"unparsable", "null"}
        THEN ErrorResponse(400, Err(0 - 1, "Invalid JSON input format", <<>>, <<>>))
    ELSE
        LET n == NormalizeBody(b)
            v == validate_input_data(n.list, schema)
            c == check_data_types_and_values(n.list, schema)
            d == convert_to_dataframe(c.data, schema)
        IN  IF ~n.ok THEN ErrorResponse(400, NotAListError)
            ELSE IF v.raised # "" THEN UnhandledResponse(v.raised)
            ELSE IF ~v.ok THEN ErrorResponse(400, v.err)
            ELSE IF c.raised # "" THEN UnhandledResponse(c.raised)
            ELSE IF ~c.ok THEN ErrorResponse(400, c.err)
            ELSE IF d.error # ""
                THEN ErrorResponse(400, Err(0 - 1, "Invalid input format", <<>>, <<>>))
            ELSE IF raises
                THEN ErrorResponse(500, Err(0 - 1, "Prediction failed", <<>>, <<>>))
            ELSE SuccessResponse(model_predict(d.df))

(* ---------------------------------------------------------------------- *)
(* vocabulary of the properties, stated on the request as it was sent      *)
(* ---------------------------------------------------------------------- *)
Terminal == pc \in {"done", "crashed"}

IsBatch == body.k \in {"array", "dict"}

(* the records of the request, as sent *)
Batch == IF body.k = "array" THEN body.elems ELSE IF body.k = "dict" THEN <<body>> ELSE <<>>

(* 0-based indices of the records *)
Indices == 0 .. (Len(Batch) - 1)

Rec(i) == Batch[i + 1]

SchemaNames == [j \in 1 .. Len(expected_features) |-> expected_features[j].field]

Columns == 1 .. Len(expected_features)

KeySet(e) == {e.items[i].key : i \in 1 .. Len(e.items)}

IsObject(e) == e.k = "dict"

AllObjects == \A i \in Indices : IsObject(Rec(i))

MissingOf(e) == SelectSeq(SchemaNames, LAMBDA f : f \notin KeySet(e))

ExtraOf(e) ==
    LET ks == [i \in 1 .. Len(e.items) |-> e.items[i].key]
    IN  SelectSeq(ks, LAMBDA f : f \notin Range(SchemaNames))

(* the record has exactly the schema's keys and no null value *)
WellFormed(e) ==
    /\ IsObject(e)
    /\ KeySet(e) = Range(SchemaNames)
    /\ \A i \in 1 .. Len(e.items) : e.items[i].val # JNull

(* the conversion of the value sent for column j *)
Converted(e, j) == type_mapping(expected_features[j].type, Get(e, expected_features[j].field))

AllConvert(e) == \A j \in Columns : Converted(e, j).out = "ok"

NegativeNumber(v) ==
    \/ v.k = "int" /\ v.s = "" /\ v.n < 0
    \/ v.k = "float" /\ ((v.s = "fin" /\ v.n < 0) \/ v.s = "-inf")

NonNegativeNumber(v) ==
    \/ v.k = "int" /\ (v.s = "huge" \/ v.n >= 0)
    \/ v.k = "float" /\ ((v.s = "fin" /\ v.n >= 0) \/ v.s = "inf")

(* column j of the record is numeric, converts, and converts to a negative *)
NegativeAt(e, j) ==
    /\ expected_features[j].type \in {"int", "float"}
    /\ Converted(e, j).out = "ok"
    /\ NegativeNumber(Converted(e, j).val)

(* a well-formed record that check_data_types_and_values accepts *)
Accepted(e) ==
    /\ WellFormed(e)
    /\ AllConvert(e)
    /\ \A j \in Columns : ~NegativeAt(e, j)

(* the row the model is to see for a record: converted cells in schema order *)
ExpectedRow(e) == [j \in Columns |-> Converted(e, j).val]

InSchemaOrder(e) == [i \in 1 .. Len(e.items) |-> e.items[i].key] = SchemaNames

(* ---------------------------------------------------------------------- *)
(* C1                                                                      *)
(* ---------------------------------------------------------------------- *)
(* C1: a batch of N >= 1 records that all pass validate_input_data and     *)
(* check_data_types_and_values, with a model whose predict succeeds, ends  *)
(* in 200, success, and N predictions, the k-th being the model's value    *)
(* for the k-th record's converted cells taken in schema order.            *)
C1_PredictionsInInputOrder ==
    (/\ Terminal
     /\ IsBatch
     /\ Len(Batch) >= 1
     /\ \A i \in Indices : Accepted(Rec(i))
     /\ ~model_raises)
    => /\ response.json
       /\ response.status = 200
       /\ response.success
       /\ Len(response.predictions) = Len(Batch)
       /\ \A i \in Indices : response.predictions[i + 1] = TreeLeaf(ExpectedRow(Rec(i)))

(* two accepted records, one with its keys out of schema order, predicted  *)
(* differently                                                             *)
C1_Witness ==
    /\ pc = "done"
    /\ Len(Batch) = 2
    /\ \A i \in Indices : Accepted(Rec(i))
    /\ \E i \in Indices : ~InSchemaOrder(Rec(i))
    /\ response.status = 200
    /\ Len(response.predictions) = 2
    /\ response.predictions[1] # response.predictions[2]

(* ---------------------------------------------------------------------- *)
(* C2                                                                      *)
(* ---------------------------------------------------------------------- *)
(* C2: a request whose body is the JSON object r ends with the status and  *)
(* the response body that the request with body [r] ends with.             *)
C2_ObjectAsOneElementArray ==
    (Terminal /\ body.k = "dict")
    => response = PredictOutcome([k |-> "array", elems |-> <<body>>],
                                 expected_features, model_raises)

(* an object body rejected with a message about record 0 *)
C2_Witness ==
    /\ pc = "done"
    /\ body.k = "dict"
    /\ response.status = 400
    /\ response.error.record = 0

(* ---------------------------------------------------------------------- *)
(* C7                                                                      *)
(* ---------------------------------------------------------------------- *)
AlreadyTyped(e) ==
    \A j \in Columns :
        LET v == Get(e, expected_features[j].field)
            type == expected_features[j].type
        IN  /\ v.k = type
            /\ type \in {"int", "float"} => NonNegativeNumber(v)

MissingResponse(i) ==
    ErrorResponse(400, Err(i, "Missing required fields", MissingOf(Rec(i)), <<>>))

(* C3 as stated: when a record of the batch lacks a schema field, the      *)
(* response is 400 with "Record {i}: Missing required fields: " and the    *)
(* record's absent schema fields in schema order. Read in the claim's      *)
(* favour: the batch holds JSON objects only and i is the first record     *)
(* that lacks a field.                                                     *)
C3_AsStated ==
    (Terminal /\ IsBatch /\ AllObjects)
    => \A i \in Indices :
          (/\ MissingOf(Rec(i)) # <<>>
           /\ \A h \in 0 .. (i - 1) : MissingOf(Rec(h)) = <<>>)
          => response = MissingResponse(i)

(* C3, amended: the same, for a record all of whose predecessors have      *)
(* exactly the schema's keys and no null value.                            *)
C3_MissingFieldsOfFirstInvalid ==
    (Terminal /\ IsBatch)
    => \A i \in Indices :
          (/\ IsObject(Rec(i))
           /\ MissingOf(Rec(i)) # <<>>
           /\ \A h \in 0 .. (i - 1) : WellFormed(Rec(h)))
          => response = MissingResponse(i)

(* the second record is the first invalid one; it has a key outside the    *)
(* schema and lacks every schema field                                     *)
C3_Witness ==
    /\ pc = "done"
    /\ Len(Batch) = 2
    /\ WellFormed(Rec(0))
    /\ IsObject(Rec(1))
    /\ ExtraOf(Rec(1)) # <<>>
    /\ Len(MissingOf(Rec(1))) = 2
    /\ response = MissingResponse(1)

(* ---------------------------------------------------------------------- *)
(* C4                                                                      *)
(* ---------------------------------------------------------------------- *)
ExtraResponse(i) ==
    ErrorResponse(400, Err(i, "Unexpected fields provided", ExtraOf(Rec(i)), <<>>))

(* C4 as stated: when a record of the batch has a key that is not a schema *)
(* field, the response is 400 with "Record {i}: Unexpected fields          *)
(* provided: " and the record's non-schema keys in record order. Read in   *)
(* the claim's favour: the batch holds JSON objects only and i is the      *)
(* first record with such a key.                                           *)
C4_AsStated ==
    (Terminal /\ IsBatch /\ AllObjects)
    => \A i \in Indices :
          (/\ ExtraOf(Rec(i)) # <<>>
           /\ \A h \in 0 .. (i - 1) : ExtraOf(Rec(h)) = <<>>)
          => response = ExtraResponse(i)

(* C4, amended: the same, for a record that has every schema field and     *)
(* all of whose predecessors have exactly the schema's keys and no null.   *)
C4_ExtraFieldsOfFirstInvalid ==
    (Terminal /\ IsBatch)
    => \A i \in Indices :
          (/\ IsObject(Rec(i))
           /\ ExtraOf(Rec(i)) # <<>>
           /\ MissingOf(Rec(i)) = <<>>
           /\ \A h \in 0 .. (i - 1) : WellFormed(Rec(h)))
          => response = ExtraResponse(i)

(* the second record is the first invalid one and has two extra keys,      *)
(* reported in the order the record has them                               *)
C4_Witness ==
    /\ pc = "done"
    /\ Len(Batch) = 2
    /\ WellFormed(Rec(0))
    /\ IsObject(Rec(1))
    /\ response = ExtraResponse(1)
    /\ response.error.fields = <<"Pool", "ExtraField">>

(* ---------------------------------------------------------------------- *)
(* C5                                                                      *)
(* ---------------------------------------------------------------------- *)
InvalidValuesAnswer == response.status = 400 /\ response.error.msg = "Invalid values"

(* C5 as stated: when a record that passed the presence, extra and null    *)
(* checks has a numeric field that converts to a negative value, the       *)
(* response is 400 and its message contains "Invalid values". Read in the  *)
(* claim's favour: every record of the batch passed those checks.          *)
C5_AsStated ==
    (Terminal /\ IsBatch /\ \A h \in Indices : WellFormed(Rec(h)))
    => \A i \in Indices :
          (\E j \in Columns : NegativeAt(Rec(i), j)) => InvalidValuesAnswer

(* C5, amended: the same, when every record of the batch passes the        *)
(* presence, extra and null checks, every field of the record converts,    *)
(* and every earlier record converts without a negative numeric value.     *)
C5_NegativeValueRejected ==
    (Terminal /\ IsBatch /\ \A h \in Indices : WellFormed(Rec(h)))
    => \A i \in Indices :
          (/\ \E j \in Columns : NegativeAt(Rec(i), j)
           /\ AllConvert(Rec(i))
           /\ \A h \in 0 .. (i - 1) : Accepted(Rec(h)))
          => InvalidValuesAnswer

(* a float field sent as a negative float, in the second record *)
C5_Witness ==
    /\ pc = "done"
    /\ Len(Batch) = 2
    /\ Accepted(Rec(0))
    /\ WellFormed(Rec(1))
    /\ AllConvert(Rec(1))
    /\ \E j \in Columns : NegativeAt(Rec(1), j)
    /\ InvalidValuesAnswer
    /\ response.error.record = 1

(* ---------------------------------------------------------------------- *)
(* C6                                                                      *)
(* ---------------------------------------------------------------------- *)
(* the columns of the record whose value does not convert, in schema order *)
FailingColumns(e) ==
    SelectSeq([j \in Columns |-> j], LAMBDA j : Converted(e, j).out # "ok")

(* one message per failing field, naming the field, its declared type and  *)
(* the value received                                                      *)
TypeErrorResponse(i) ==
    LET cols == FailingColumns(Rec(i))
    IN  ErrorResponse(400,
            Err(i, "Invalid input format: Type errors - ", <<>>,
                [m \in 1 .. Len(cols) |->
                    Detail(expected_features[cols[m]].field, "must be of type",
                           expected_features[cols[m]].type,
                           ToStr(Get(Rec(i), expected_features[cols[m]].field)))]))

(* C6: for the first record in which a field fails conversion to its       *)
(* declared type, every schema field is examined and the response is 400   *)
(* with "Record {i}: Invalid input format: Type errors - " and one message *)
(* per failing field in schema order, the record's negative values not     *)
(* being reported. Read in the claim's favour: every record passed         *)
(* validate_input_data and every earlier record passes the type and value  *)
(* checks.                                                                 *)
C6_TypeErrorsCollected ==
    (Terminal /\ IsBatch /\ \A h \in Indices : WellFormed(Rec(h)))
    => \A i \in Indices :
          (/\ ~AllConvert(Rec(i))
           /\ \A h \in 0 .. (i - 1) : Accepted(Rec(h)))
          => response = TypeErrorResponse(i)

(* ---------------------------------------------------------------------- *)
(* C8                                                                      *)
(* ---------------------------------------------------------------------- *)
(* C8: every request ends in one of the handler's JSON responses, 200 with *)
(* success or 400/500 without; no exception leaves the predict handler.    *)
C8_NoExceptionEscapes ==
    Terminal
    => /\ pc = "done"
       /\ response.json
       /\ \/ response.status = 200 /\ response.success
          \/ response.status \in {400, 500} /\ ~response.success

(* ---------------------------------------------------------------------- *)
(* C9                                                                      *)
(* ---------------------------------------------------------------------- *)
(* rejected with a message about one record *)
Rejected == pc = "done" /\ response.status = 400 /\ response.error.record >= 0

(* the record fails one of the checks of either stage *)
Invalid(e) == ~Accepted(e)

ValidateMessages ==
    { "No input data provided", "Missing required fields",
      "Unexpected fields provided", "Fields cannot be null" }

CheckMessages == { "Invalid input format: Type errors - ", "Invalid values" }

(* C9 as stated: a rejected batch is answered with the index of the lowest *)
(* record that fails any check of either stage; no message about a later   *)
(* record is returned while an earlier record is invalid. Read in the      *)
(* claim's favour: the batch holds JSON objects only.                      *)
C9_AsStated ==
    (Rejected /\ IsBatch /\ AllObjects)
    => /\ Invalid(Rec(response.error.record))
       /\ \A h \in 0 .. (response.error.record - 1) : ~Invalid(Rec(h))

(* C9, amended: a rejected batch is answered with the index of the lowest  *)
(* record failing the stage that rejected it: validate_input_data if any   *)
(* record fails that stage, otherwise check_data_types_and_values.         *)
C9_FirstFailingRecordOfStage ==
    (Rejected /\ IsBatch)
    => LET i == response.error.record
       IN  \/ /\ response.error.msg \in ValidateMessages
              /\ ~WellFormed(Rec(i))
              /\ \A h \in 0 .. (i - 1) : WellFormed(Rec(h))
           \/ /\ response.error.msg \in CheckMessages
              /\ \A h \in Indices : WellFormed(Rec(h))
              /\ ~Accepted(Rec(i))
              /\ \A h \in 0 .. (i - 1) : Accepted(Rec(h))

(* the answer is about the second record's missing fields although the     *)
(* first record has a negative value                                       *)
C9_Witness ==
    /\ Rejected
    /\ Len(Batch) = 2
    /\ response.error.record = 1
    /\ response.error.msg = "Missing required fields"
    /\ WellFormed(Rec(0))
    /\ \E j \in Columns : NegativeAt(Rec(0), j)

(* ---------------------------------------------------------------------- *)
(* C10                                                                     *)
(* ---------------------------------------------------------------------- *)
(* the ValidatedRecord invariant on a record as the handler holds it *)
ValidatedRecord(e) ==
    /\ IsObject(e)
    /\ KeySet(e) = Range(SchemaNames)
    /\ \A j \in Columns :
          LET v == Get(e, expected_features[j].field)
              type == expected_features[j].type
          IN  /\ v # JNull
              /\ v.k = type
              /\ type \in {"int", "float"} => NonNegativeNumber(v)

(* C10: model.predict is invoked only after validate_input_data,           *)
(* check_data_types_and_values and convert_to_dataframe, in that order,    *)
(* and then every record has exactly the schema's keys, no null, every     *)
(* value of its declared type and every int/float value >= 0.              *)
C10_ValidatedBeforePredict ==
    pc = "model_predict"
    => /\ stages = <<"validate_input_data", "check_data_types_and_values",
                     "convert_to_dataframe">>
       /\ \A r \in 1 .. Len(input_data) : ValidatedRecord(input_data[r])

====
